---- MODULE Spec2Model ----
(***************************************************************************)
(* kwant/physics/leads.py: modes(), setup_linsys(), unified_eigenproblem(), *)
(* make_proper_modes() and StabilizedModes.selfenergy() as a state machine. *)
(*                                                                         *)
(* Numbers are integers in units of the machine epsilon: the real number   *)
(* 1.0 is Unit, eps = tol * machine-epsilon is the integer tol.  What the  *)
(* dense kernels (svd, lu_factor/rcond_from_lu, schur, gen_schur, eigh)    *)
(* return is drawn from small sets; the control flow around them is the    *)
(* code's.  A matrix is its shape, whether it is identically zero and      *)
(* whether it has an imaginary part.                                       *)
(***************************************************************************)
EXTENDS Integers, Sequences, FiniteSets, TLC

Dims == 1..2
MaxTol == 2
Unit == 8
HalfTurn == 2

\* A magnitude further than any eps from 0 (and from Unit).
Far == MaxTol + 1
\* Floating point specials, above every finite number of the model.
Inf == Unit * Unit
NaN == Inf + 1

Abs(x) == IF x < 0 THEN -x ELSE x
Min(a, b) == IF a < b THEN a ELSE b
IsNaN(x) == x = NaN
\* IEEE comparisons: every comparison with a NaN is false.
Lt(x, y) == ~IsNaN(x) /\ ~IsNaN(y) /\ x < y
Gt(x, y) == Lt(y, x)
Sign(x) == IF IsNaN(x) THEN NaN ELSE IF x < 0 THEN -1 ELSE IF x > 0 THEN 1 ELSE 0

VARIABLES h_cell, h_hop, tol, stabilization, pc, linsys, loc, eig, result,
          err, rerun, sigma

vars == <<h_cell, h_hop, tol, stabilization, pc, linsys, loc, eig, result,
          err, rerun, sigma>>

\* stabilization: <<>> is None, otherwise a sequence of two flags.
StabilizationArgs ==
  {<<>>} \cup {<<a, b>> : a \in {"True", "False"}, b \in {"True", "False"}}

\* Singular values svd() returns for a hopping with m columns that is not
\* identically zero: descending, the largest scaled to Unit.
SingularValues(m) ==
  {s \in [1..m -> {0, MaxTol, Unit}] :
     /\ s[1] = Unit
     /\ \A i \in 1..(m - 1) : s[i + 1] <= s[i]}

NoLinsys == [form |-> "none", dim |-> 0, v |-> <<>>, extract |-> "none"]
NoLoc == [path |-> "none", n_nonsing |-> 0, add_imaginary |-> FALSE,
          need_to_stabilize |-> FALSE, rcond_probe |-> <<>>,
          rcond_stab |-> <<>>, rcond_b |-> <<>>, stabilization |-> <<>>]
NoEig == [ev |-> <<>>, select |-> <<>>, propselect |-> <<>>]
NoProp == [wave_functions |-> <<>>, velocities |-> <<>>, momenta |-> <<>>]
NoStab == [vecs |-> <<>>, rows |-> 0, nmodes |-> 0, sqrt_hop |-> <<>>]
NoResult == [set |-> FALSE, prop |-> NoProp, stab |-> NoStab]
NoSigma == [set |-> FALSE, used |-> {}, form |-> "none"]

\* What rcond_from_lu can return, in units of the machine epsilon.
RcondVals == {0, 1, Unit}
RcondBVals == {0, MaxTol, Unit}

\* complex_any(h_hop), np.any(h_hop)
complex_any(h) == ~h.zero

ShortCircuitNever(hop) == FALSE

\* modes() line 580: the short-circuit for a hopping that is identically zero.
ShortCircuit(hop) == ~complex_any(hop)

FastPathRankOnly(n_nonsing, n, stab_arg) == n_nonsing = n

FastPathUnlessForced(n_nonsing, n, stab_arg) ==
  n_nonsing = n /\ (stab_arg = <<>> \/ stab_arg = <<"False", "False">>)

\* Line 198: the hopping can be inverted and nothing else was asked for.
FastPath(n_nonsing, n, stab_arg) == n_nonsing = n /\ stab_arg = <<>>

IllConditionedInclusive(rcond, eps) == rcond <= eps

\* Lines 252 and 269: rcond < eps
IllConditioned(rcond, eps) == rcond < eps

\* n_nonsing = np.sum(s > eps * s[0])
NNonsing(s, t) == Cardinality({i \in DOMAIN s : s[i] * Unit > t * s[1]})

AddImaginaryIfComplex(stab, matrices_real) ==
  stab[1] = "True" \/ ~matrices_real

\* add_imaginary = stabilization[0] or
\*                 ((stabilization[0] is None) and not matrices_real)
AddImaginary(stab, matrices_real) ==
  stab[1] = "True" \/ (stab[1] = "None" /\ ~matrices_real)

ReduceFlagReversed(stab, rb, t) ==
  IF stab[2] # "True"
  THEN (IF rb > t * t THEN "False" ELSE "True")
  ELSE stab[2]

\* stabilization[1] after the conditioning check of B.
ReduceFlag(stab, rb, t) ==
  IF stab[2] # "True"
  THEN (IF rb > t * t THEN "True" ELSE "False")
  ELSE stab[2]

\* The pencil returned for the final stabilization[1].
Matrices(flag) == IF flag = "True" THEN "regular" ELSE "generalized"

\* np.zeros((n, n_nonsing))[:m]
VOut(n, m, n_nonsing) == <<Min(n, m), n_nonsing>>

\* setup_linsys(h_cell, h_hop, tol, stabilization) with the kernels' answers:
\* rp = rcond of h_cell, rs = rcond of h_cell + 1j * temp, rb = rcond of B.
\* Returns the Linsys or the error raised, and the locals at that point.
SetupLinsys(cell, hop, t, stab_arg, rp, rs, rb) ==
  LET n == cell.rows
      m == hop.cols
      eps == t
  IN
  IF ~complex_any(hop)
  THEN [err |-> "zero_hopping", linsys |-> NoLinsys, loc |-> NoLoc]
  ELSE
  LET n_nonsing == NNonsing(hop.s, eps)
  IN
  IF FastPath(n_nonsing, n, stab_arg)
  THEN [err |-> "none",
        linsys |-> [form |-> "regular", dim |-> 2 * n, v |-> <<>>,
                    extract |-> "truncate"],
        loc |-> [NoLoc EXCEPT !.path = "fast", !.n_nonsing = n_nonsing]]
  ELSE
  LET stab == IF stab_arg = <<>> THEN <<"None", "False">> ELSE stab_arg
      matrices_real == ~(hop.imag \/ cell.imag)
      add_imaginary == AddImaginary(stab, matrices_real)
      probed == ~add_imaginary
      need_to_stabilize == add_imaginary \/ IllConditioned(rp, eps)
      flag == ReduceFlag(stab, rb, t)
      l0 == [path |-> "general", n_nonsing |-> n_nonsing,
             add_imaginary |-> add_imaginary,
             need_to_stabilize |-> need_to_stabilize,
             rcond_probe |-> IF probed THEN <<rp>> ELSE <<>>,
             rcond_stab |-> IF need_to_stabilize THEN <<rs>> ELSE <<>>,
             rcond_b |-> <<>>, stabilization |-> stab]
  IN
  IF need_to_stabilize /\ IllConditioned(rs, eps)
  THEN [err |-> "flat_band", linsys |-> NoLinsys, loc |-> l0]
  ELSE [err |-> "none",
        linsys |-> [form |-> Matrices(flag), dim |-> 2 * n_nonsing,
                    v |-> VOut(n, m, n_nonsing),
                    extract |-> IF need_to_stabilize THEN "svd_stabilized"
                                ELSE "svd"],
        loc |-> [l0 EXCEPT
                   !.rcond_b = IF stab[2] # "True" THEN <<rb>> ELSE <<>>,
                   !.stabilization = <<stab[1], flag>>]]

Init ==
  /\ h_cell \in [rows : Dims, cols : Dims, imag : BOOLEAN]
  /\ h_hop \in {h \in [rows : Dims, cols : Dims, zero : BOOLEAN,
                       imag : BOOLEAN,
                       s : UNION {SingularValues(m) : m \in Dims} \cup {<<>>}] :
                  /\ h.cols <= h.rows
                  /\ h.zero => h.s = <<>> /\ ~h.imag
                  /\ ~h.zero => Len(h.s) = h.cols}
  /\ tol \in 1..MaxTol
  /\ stabilization \in StabilizationArgs
  /\ pc = "modes"
  /\ linsys = NoLinsys
  /\ loc = NoLoc
  /\ eig = NoEig
  /\ result = NoResult
  /\ err = "none"
  /\ rerun = "same"
  /\ sigma = NoSigma

\* modes(): lines 573-584, the shape validation and the zero-hopping
\* short-circuit.
ShapesOkSquareOnly(cell, hop) == cell.rows = cell.cols

ShapesOk(cell, hop) == cell.rows = cell.cols /\ cell.rows = hop.rows

EmptyResult(cell, hop) ==
  [set |-> TRUE,
   prop |-> NoProp,
   stab |-> [vecs |-> <<>>, rows |-> 0, nmodes |-> 0,
             sqrt_hop |-> <<hop.cols, 0>>]]

ModesEntry ==
  /\ pc = "modes"
  /\ IF ~ShapesOk(h_cell, h_hop)
     THEN /\ pc' = "error"
          /\ err' = "incompatible_sizes"
          /\ UNCHANGED result
     ELSE IF ShortCircuit(h_hop)
     THEN /\ pc' = "done"
          /\ result' = EmptyResult(h_cell, h_hop)
          /\ UNCHANGED err
     ELSE /\ pc' = "setup_linsys"
          /\ UNCHANGED <<result, err>>
  /\ UNCHANGED <<h_cell, h_hop, tol, stabilization, linsys, loc, eig, rerun,
                 sigma>>

\* modes() line 587: the call of setup_linsys.
SetupLinsysCall ==
  /\ pc = "setup_linsys"
  /\ \E rp \in RcondVals, rs \in RcondVals, rb \in RcondBVals :
       LET r == SetupLinsys(h_cell, h_hop, tol, stabilization, rp, rs, rb)
       IN /\ linsys' = r.linsys
          /\ loc' = r.loc
          /\ IF r.err = "none"
             THEN /\ pc' = "unified_eigenproblem"
                  /\ UNCHANGED err
             ELSE /\ pc' = "error"
                  /\ err' = r.err
  /\ UNCHANGED <<h_cell, h_hop, tol, stabilization, eig, result, rerun,
                 sigma>>

\* ---- unified_eigenproblem ------------------------------------------------
\* A point of the spectrum: its modulus class and its angle.  "unit" lies on
\* the unit circle at angle ang, "near" one machine epsilon outside it.
Angles == (0 - HalfTurn)..HalfTurn
SpectrumPoints ==
  <<[kind |-> "grow", ang |-> 0], [kind |-> "near", ang |-> 0],
    [kind |-> "decay", ang |-> 0], [kind |-> "inf", ang |-> 0],
    [kind |-> "nan", ang |-> 0]>>
  \o [i \in 1..(2 * HalfTurn + 1) |-> [kind |-> "unit", ang |-> HalfTurn + 1 - i]]

RECURSIVE NonDecreasing(_, _)
NonDecreasing(len, lo) ==
  IF len = 0 THEN {<<>>}
  ELSE UNION {{<<c>> \o s : s \in NonDecreasing(len - 1, c)} :
              c \in lo..Len(SpectrumPoints)}

\* The spectra a Schur decomposition of a pencil of dimension d lists, in the
\* order of SpectrumPoints (the angles descending, so that argsort reorders).
Spectra ==
  [d \in {2 * k : k \in Dims} |->
     {[i \in 1..d |-> SpectrumPoints[c[i]]] : c \in NonDecreasing(d, 1)}]

\* kla.schur: the modulus of an eigenvalue.
Modulus(p) ==
  CASE p.kind = "grow" -> Unit - Far
    [] p.kind = "near" -> Unit + 1
    [] p.kind = "decay" -> Unit + Far
    [] p.kind = "inf" -> Inf
    [] p.kind = "nan" -> NaN
    [] OTHER -> Unit

\* kla.gen_schur: the moduli of alpha and beta.
Alpha(p) ==
  CASE p.kind = "inf" -> Unit
    [] p.kind = "nan" -> 0
    [] OTHER -> Modulus(p)
Beta(p) == IF p.kind \in {"inf", "nan"} THEN 0 ELSE Unit

\* ev = alpha / beta under np.errstate(divide='ignore', invalid='ignore')
Divide(a, b) == IF b = 0 THEN (IF a = 0 THEN NaN ELSE Inf) ELSE (a * Unit) \div b

\* abs(x - 1) in floating point
DistFromOne(x) == IF x \in {Inf, NaN} THEN x ELSE Abs(x - Unit)

\* Regular form: select = abs(ev) > 1 + eps
SelectRegular(m, eps) == Gt(m, Unit + eps)
\* Regular form: propselect = abs(abs(ev) - 1) < eps
PropselectRegular(m, eps) == Lt(DistFromOne(m), eps)
\* Generalized form: select = abs(alpha) > (1 + eps) * abs(beta)
SelectGeneralized(a, b, eps) == a * Unit > (Unit + eps) * b
PropselectGeneralizedInclusive(a, b, eps) == Abs(a - b) * Unit <= eps * b

\* Generalized form: propselect = abs(abs(alpha) - abs(beta)) < eps * abs(beta)
PropselectGeneralized(a, b, eps) == Abs(a - b) * Unit < eps * b

\* unified_eigenproblem(a, b, tol) for the spectrum sp the Schur kernel finds.
UnifiedEigenproblem(form, sp, t) ==
  LET eps == t
  IN IF form = "regular"
     THEN [ev |-> [i \in DOMAIN sp |-> [abs |-> Modulus(sp[i]), ang |-> sp[i].ang]],
           select |-> [i \in DOMAIN sp |-> SelectRegular(Modulus(sp[i]), eps)],
           propselect |-> [i \in DOMAIN sp |->
                             PropselectRegular(Modulus(sp[i]), eps)]]
     ELSE [ev |-> [i \in DOMAIN sp |->
                     [abs |-> Divide(Alpha(sp[i]), Beta(sp[i])),
                      ang |-> sp[i].ang]],
           select |-> [i \in DOMAIN sp |->
                         SelectGeneralized(Alpha(sp[i]), Beta(sp[i]), eps)],
           propselect |-> [i \in DOMAIN sp |->
                             PropselectGeneralized(Alpha(sp[i]), Beta(sp[i]), eps)]]

\* modes() lines 588-589.  The locals of setup_linsys are gone.
UnifiedEigenproblemCall ==
  /\ pc = "unified_eigenproblem"
  /\ \E sp \in Spectra[linsys.dim] :
       eig' = UnifiedEigenproblem(linsys.form, sp, tol)
  /\ pc' = "make_proper_modes"
  /\ loc' = NoLoc
  /\ UNCHANGED <<h_cell, h_hop, tol, stabilization, linsys, result, err,
                 rerun, sigma>>

\* ---- make_proper_modes ---------------------------------------------------
\* What eigh can return as a velocity, in units of the machine epsilon.
VelVals == {0 - Far, 1, Far}
\* What an entry of np.empty() nobody wrote can hold.
Uninitialized == VelVals \cup {NaN}

\* The one element of a singleton set: binds a value that is computed once.
The(S) == CHOOSE x \in S : TRUE

\* The permutation a sort returns, from the number of entries that go before
\* each entry: position r holds the entry that r - 1 entries precede.
SortPerm(ranks) ==
  The({[r \in DOMAIN rank |-> CHOOSE i \in DOMAIN rank : rank[i] = r - 1] :
         rank \in {ranks}})

\* ev[propselect]
Masked(ev, mask) ==
  LET F[k \in 0..Len(ev)] ==
        IF k = 0 THEN <<>>
        ELSE IF mask[k] THEN Append(F[k - 1], ev[k]) ELSE F[k - 1]
  IN F[Len(ev)]

\* np.argsort(angles)
ArgSort(lam) ==
  SortPerm([i \in DOMAIN lam |->
              Cardinality({j \in DOMAIN lam :
                             lam[j].ang < lam[i].ang
                             \/ (lam[j].ang = lam[i].ang /\ j < i)})])

\* np.resize(np.argsort(angles), (2 * len(angles),)), 1-based
SortOrder(lam) ==
  LET a == ArgSort(lam)
  IN [j \in 1..(2 * Len(lam)) |-> a[((j - 1) % Len(lam)) + 1]]

\* abs(x - y) for two eigenvalues within eps of the unit circle: the distance
\* along the circle plus the difference of the moduli.
Distance(x, y) ==
  LET d == Abs(x.ang - y.ang)
  IN Min(d, 2 * HalfTurn + 1 - d) + Abs(x.abs - y.abs)

\* boundaries = np.argwhere(np.abs(np.diff(lmbdainv[sort_order])) > eps)
\*              .flatten() + 1, with the all-equal case
Boundaries(lam, eps) ==
  LET L == Len(lam)
      so == SortOrder(lam)
      B == {p \in 1..(2 * L - 1) : Distance(lam[so[p + 1]], lam[so[p]]) > eps}
      bs == [k \in 1..Cardinality(B) |->
               CHOOSE p \in B : Cardinality({q \in B : q < p}) = k - 1]
  IN IF B = {} /\ L > 0 THEN <<0, L>> ELSE bs

\* The index sets indx of the cluster loop, in the order the loop visits
\* them, up to its break.
Clusters(lam, eps) ==
  LET L == Len(lam)
      so == SortOrder(lam)
      b == Boundaries(lam, eps)
      F[k \in 0..Len(b)] ==
        IF k = 0 \/ Len(b) < 2 THEN <<>>
        ELSE IF k >= Len(b) THEN F[k - 1]
        ELSE IF \E q \in 1..k : b[q + 1] > b[1] + L THEN F[k - 1]
        ELSE Append(F[k - 1], [j \in 1..(b[k + 1] - b[k]) |-> so[b[k] + j]])
  IN F[Len(b)]

Range(s) == {s[i] : i \in DOMAIN s}
Visited(cl) == UNION {Range(cl[k]) : k \in DOMAIN cl}

\* velocities after the loop: velocities[indx] = vel_vals for each cluster in
\* turn, vel_vals the cluster's eigenvalues ascending (la.eigh); an entry no
\* cluster holds keeps what np.empty found in memory.
Velocities(L, cl, w, mem) ==
  LET F[k \in 0..Len(cl)] ==
        IF k = 0 THEN [i \in 1..L |-> IF i \in DOMAIN mem THEN mem[i] ELSE 0]
        ELSE LET indx == cl[k]
                 asc == SortPerm([c \in DOMAIN indx |->
                                    Cardinality({a \in DOMAIN indx :
                                      w[indx[a]] < w[indx[c]]
                                      \/ (w[indx[a]] = w[indx[c]] /\ a < c)})])
             IN [i \in 1..L |->
                   IF \E j \in DOMAIN indx : indx[j] = i
                   THEN w[indx[asc[CHOOSE j \in DOMAIN indx : indx[j] = i]]]
                   ELSE F[k - 1][i]]
  IN F[Len(cl)]

\* np.any(abs(velocities) < vel_eps)
ZeroVelocity(vel, vel_eps) == \E i \in DOMAIN vel : Lt(Abs(vel[i]), vel_eps)
\* 2 * np.sum(velocities < 0) != len(velocities)
CountMismatch(vel) ==
  2 * Cardinality({i \in DOMAIN vel : Lt(vel[i], 0)}) # Len(vel)

\* momenta = -np.angle(lmbdainv)
Momenta(lam) == [i \in DOMAIN lam |-> 0 - lam[i].ang]

\* The keys of np.lexsort, the last one first.
Key1(v) == Sign(v)
Key2(v, mom) == IF IsNaN(v) THEN NaN ELSE (0 - Sign(v)) * mom
Key3(v) == v

\* order = np.lexsort([velocities, -np.sign(velocities) * momenta,
\*                     np.sign(velocities)])
LexOrder(vel, mom) ==
  SortPerm([i \in DOMAIN vel |->
              Cardinality({j \in DOMAIN vel :
                \/ Key1(vel[j]) < Key1(vel[i])
                \/ /\ Key1(vel[j]) = Key1(vel[i])
                   /\ \/ Key2(vel[j], mom[j]) < Key2(vel[i], mom[i])
                      \/ /\ Key2(vel[j], mom[j]) = Key2(vel[i], mom[i])
                         /\ \/ Key3(vel[j]) < Key3(vel[i])
                            \/ (Key3(vel[j]) = Key3(vel[i]) /\ j < i)})])

\* make_proper_modes, lines 499-518: the checks, the sort and the result.
\* A wave function is the index of its candidate in lmbdainv.
ProperModes(lam, velocities, vel_eps) ==
  IF ZeroVelocity(velocities, vel_eps)
  THEN [err |-> "zero_velocity", psi |-> <<>>, prop |-> NoProp]
  ELSE IF CountMismatch(velocities)
  THEN [err |-> "mode_count", psi |-> <<>>, prop |-> NoProp]
  ELSE LET momenta == Momenta(lam)
       IN The({[err |-> "none",
                psi |-> order,
                prop |-> [wave_functions |-> order,
                          velocities |-> [r \in DOMAIN order |-> velocities[order[r]]],
                          momenta |-> [r \in DOMAIN order |-> momenta[order[r]]]]] :
                 order \in {LexOrder(velocities, momenta)}})

\* make_proper_modes(lmbdainv, psi, extract, tol): the error raised, or the
\* order of the columns of psi and the PropagatingModes.  cl are the clusters
\* of lmbdainv, w the velocities eigh finds, mem the memory under np.empty.
MakeProperModes(lam, t, cl, w, mem) ==
  The({ProperModes(lam, vel, t) : vel \in {Velocities(Len(lam), cl, w, mem)}})

\* ---- modes, lines 591-607 ------------------------------------------------
\* n after "if v is not None: n = v.shape[1]"
TransformedDim(cell, lin) == IF lin.v = <<>> THEN cell.rows ELSE lin.v[2]

\* nrightmovers = np.sum(propselect) // 2
NRightMovers(e) == Cardinality({i \in DOMAIN e.propselect : e.propselect[i]}) \div 2

\* np.c_[prop_vecs[n:], evan_vecs[n:]]: the columns of vecs (and of
\* vecslmbdainv), the propagating ones first.
VecsColumns(psi, nevan) ==
  [k \in 1..Len(psi) |-> [kind |-> "prop", id |-> psi[k]]]
  \o [k \in 1..nevan |-> [kind |-> "evan", id |-> k]]

Assemble(cell, lin, e, r) ==
  LET n == TransformedDim(cell, lin)
      nrightmovers == NRightMovers(e)
      nevan == n - nrightmovers
  IN [set |-> TRUE,
      prop |-> r.prop,
      stab |-> [vecs |-> VecsColumns(r.psi, nevan), rows |-> n,
                nmodes |-> nrightmovers, sqrt_hop |-> lin.v]]

\* The lmbdainv = ev[propselect] that unified_eigenproblem can hand over.
Candidates ==
  [t \in 1..MaxTol |->
     UNION {{Masked(e.ev, e.propselect) :
               e \in {UnifiedEigenproblem(f, sp, t) : sp \in Spectra[d]}} :
            d \in DOMAIN Spectra, f \in {"regular", "generalized"}}]

\* What make_proper_modes can end in for lmbdainv = lam, each with whether a
\* second call on the same lam, psi and tol (the kernels answering the same,
\* np.empty finding what it finds) ends in the same.
Outcomes(lam, t) ==
  UNION {UNION {{[first |-> r, rerun |-> IF r2 = r THEN "same" ELSE "differs"] :
                   r \in O, r2 \in O} :
                O \in {{MakeProperModes(lam, t, cl, w, mem) :
                          mem \in [(1..Len(lam)) \ Visited(cl) -> Uninitialized]} :
                       w \in [Visited(cl) -> VelVals]}} :
         cl \in {Clusters(lam, t)}}

\* Outcomes, tabulated once for every tol and lmbdainv.
OutcomeTable ==
  [t \in 1..MaxTol |-> [lam \in Candidates[t] |-> Outcomes(lam, t)]]

MakeProperModesCall ==
  /\ pc = "make_proper_modes"
  /\ \E o \in OutcomeTable[tol][Masked(eig.ev, eig.propselect)] :
       /\ IF o.first.err = "none"
          THEN /\ pc' = "done"
               /\ result' = Assemble(h_cell, linsys, eig, o.first)
               /\ UNCHANGED err
          ELSE /\ pc' = "error"
               /\ err' = o.first.err
               /\ UNCHANGED result
       /\ rerun' = o.rerun
  /\ eig' = NoEig
  /\ linsys' = NoLinsys
  /\ UNCHANGED <<h_cell, h_hop, tol, stabilization, loc, sigma>>

\* ---- StabilizedModes.selfenergy -------------------------------------------
SelfenergyColumnsEvanescent(stab) == (2 * stab.nmodes + 1)..Len(stab.vecs)

\* The columns of vecs and vecslmbdainv that enter Sigma:
\* vecs[:, self.nmodes:], 1-based.
SelfenergyColumns(stab) == (stab.nmodes + 1)..Len(stab.vecs)

Selfenergy(stab) ==
  [set |-> TRUE,
   used |-> SelfenergyColumns(stab),
   form |-> IF stab.sqrt_hop # <<>> THEN "sqrt_hop" ELSE "solve"]

SelfenergyCall ==
  /\ pc = "done"
  /\ sigma' = Selfenergy(result.stab)
  /\ pc' = "selfenergy_done"
  /\ UNCHANGED <<h_cell, h_hop, tol, stabilization, linsys, loc, eig, result,
                 err, rerun>>

Next == ModesEntry \/ MakeProperModesCall \/ SelfenergyCall \/ UnifiedEigenproblemCall \/ SetupLinsysCall

Spec == Init /\ [][Next]_vars

\* ---- the claims ------------------------------------------------------------
Returned == pc \in {"done", "selfenergy_done"}
SetupReturned == pc = "unified_eigenproblem"
ShapesValid == h_cell.rows = h_cell.cols /\ h_cell.rows = h_hop.rows

\* C1 (as claimed): whenever modes returns for a hopping that is not
\* identically zero, the number of modes is even, the first half of the
\* velocities is strictly negative, the second half strictly positive, and no
\* velocity is smaller in magnitude than tol machine epsilons.
C1_HalvesBySign ==
  (Returned /\ ~h_hop.zero) =>
    LET v == result.prop.velocities
        L == Len(v)
    IN /\ L % 2 = 0
       /\ \A i \in 1..L :
            /\ i <= L \div 2 => Lt(v[i], 0)
            /\ i > L \div 2 => Gt(v[i], 0)
            /\ ~Lt(Abs(v[i]), tol)

\* C2 (as claimed): in the PropagatingModes returned, the first half is in
\* descending order of momentum and the second half in ascending order, and
\* the three arrays have one length.
C2_MomentumOrder ==
  Returned =>
    LET m == result.prop.momenta
        L == Len(m)
    IN /\ Len(result.prop.velocities) = L
       /\ Len(result.prop.wave_functions) = L
       /\ \A i \in 1..L, j \in 1..L :
            /\ (i < j /\ j <= L \div 2) => m[i] >= m[j]
            /\ (L \div 2 < i /\ i < j) => m[i] <= m[j]

\* C3 (as claimed): when stabilization[1] is True, setup_linsys returns the
\* pencil (A, B) with B present, never the reduced regular problem.
C3_ForcedGeneralized ==
  (SetupReturned /\ stabilization # <<>> /\ stabilization[2] = "True") =>
    linsys.form = "generalized"

\* C4: for shape-valid inputs whose hopping is identically zero, modes raises
\* nothing and never enters setup_linsys; what it returns has no propagating
\* mode and a StabilizedModes with nmodes = 0.
C4_ZeroHopping ==
  (ShapesValid /\ h_hop.zero) =>
    /\ pc \in {"modes", "done", "selfenergy_done"}
    /\ err = "none"
    /\ Returned =>
         /\ result.set
         /\ result.prop.wave_functions = <<>>
         /\ result.prop.velocities = <<>>
         /\ result.prop.momenta = <<>>
         /\ result.stab.nmodes = 0

C4_Witness == pc = "done" /\ ShapesValid /\ h_hop.zero

\* C5: modes raises the size error and returns nothing exactly when cell is
\* not square or its dimension differs from hop's row count, also when hop is
\* identically zero.
C5_ShapeError ==
  /\ ~ShapesValid => /\ pc \in {"modes", "error"}
                     /\ pc = "error" => err = "incompatible_sizes"
                     /\ ~result.set
  /\ err = "incompatible_sizes" => ~ShapesValid

C5_Witness ==
  pc = "error" /\ err = "incompatible_sizes" /\ h_hop.zero
  /\ h_cell.rows = h_cell.cols /\ h_cell.rows # h_hop.rows

\* The hopping has full numerical rank N: every singular value above
\* eps * s[0], and as many of them as the cell has rows.
HopInvertible == ~h_hop.zero /\ NNonsing(h_hop.s, tol) = h_cell.rows
MatricesComplex == h_hop.imag \/ h_cell.imag
FirstFlagForced == stabilization # <<>> /\ stabilization[1] = "True"

C7_OnlyEvanescent ==
  sigma.set => \A k \in sigma.used : result.stab.vecs[k].kind = "evan"

\* C7 (amended): the self-energy is computed from all columns after the
\* first nmodes: the nmodes outgoing propagating columns and the evanescent
\* ones; none of the first nmodes (incoming) columns enters.
C7_OutgoingAndEvanescent ==
  sigma.set =>
    LET st == result.stab
    IN /\ sigma.used = {k \in DOMAIN st.vecs : k > st.nmodes}
       /\ \A k \in DOMAIN st.vecs :
            /\ st.vecs[k].kind = "evan" => k \in sigma.used
            /\ (st.nmodes < k /\ k <= 2 * st.nmodes) =>
                 (st.vecs[k].kind = "prop" /\ k \in sigma.used)
            /\ k <= st.nmodes => (st.vecs[k].kind = "prop" /\ k \notin sigma.used)

C7_Witness ==
  /\ sigma.set /\ result.stab.nmodes >= 1
  /\ \E k \in sigma.used : result.stab.vecs[k].kind = "prop"
  /\ \E k \in sigma.used : result.stab.vecs[k].kind = "evan"

\* C8: the flat-band error is raised exactly when the rcond of the cell
\* Hamiltonian with the anti-Hermitian term added was computed and is below
\* eps; never on the fast path, nor when the term is not forced or implied
\* and the plain cell Hamiltonian has rcond >= eps; with it no Linsys and no
\* result exist.
C8_FlatBand ==
  /\ err = "flat_band" <=> (loc.rcond_stab # <<>> /\ loc.rcond_stab[1] < tol)
  /\ loc.path = "fast" => (err # "flat_band" /\ loc.rcond_stab = <<>>)
  /\ (loc.path = "general" /\ ~loc.add_imaginary /\ loc.rcond_probe[1] >= tol)
       => (err # "flat_band" /\ loc.rcond_stab = <<>>)
  /\ err = "flat_band" =>
       (pc = "error" /\ loc.path = "general" /\ linsys = NoLinsys /\ ~result.set)

C8_Witness ==
  /\ err = "flat_band" /\ ~loc.add_imaginary
  /\ loc.rcond_probe[1] < tol /\ loc.rcond_stab[1] < tol

\* C9 (as claimed): no step of a call changes the caller's arguments, and a
\* second call on the same inputs ends as the first one did.
C9_PureAndDeterministic ==
  [][/\ h_cell' = h_cell /\ h_hop' = h_hop /\ tol' = tol
     /\ stabilization' = stabilization
     /\ rerun' = "same"]_vars

SetupRan == loc.path # "none"

SecondFlagForced == stabilization # <<>> /\ stabilization[2] = "True"

\* C12: on the general path with the second stabilization flag not forced,
\* setup_linsys computes rcond of B and returns the single reduced matrix
\* when it is above eps * tol, the pencil (A, B) otherwise: one Linsys of
\* exactly one of the two forms.
C12_ReduceIffWellConditioned ==
  (SetupReturned /\ loc.path = "general" /\ ~SecondFlagForced) =>
    /\ loc.rcond_b # <<>>
    /\ linsys.form \in {"regular", "generalized"}
    /\ linsys.form = "regular" <=> loc.rcond_b[1] > tol * tol
    /\ linsys.form = "generalized" <=> loc.rcond_b[1] <= tol * tol
    /\ loc.stabilization[2] = (IF linsys.form = "regular" THEN "True" ELSE "False")
    /\ err = "none"

C12_Witness ==
  /\ SetupReturned /\ loc.path = "general" /\ ~SecondFlagForced
  /\ loc.rcond_b # <<>> /\ loc.rcond_b[1] > 0 /\ loc.rcond_b[1] <= tol * tol
  /\ linsys.form = "generalized"

\* C13 (as claimed): for every non-empty lmbdainv that modes hands to
\* make_proper_modes, each candidate index lies in exactly one cluster of the
\* loop, at one position, so the loop assigns every entry of velocities.
C13_ClustersPartition ==
  pc = "make_proper_modes" =>
    LET lam == Masked(eig.ev, eig.propselect)
        cl == Clusters(lam, tol)
    IN Len(lam) > 0 =>
         \A i \in 1..Len(lam) :
           Cardinality({<<k, j>> \in (DOMAIN cl) \X (1..Len(lam)) :
                          j \in DOMAIN cl[k] /\ cl[k][j] = i}) = 1

\* C14: in what unified_eigenproblem returns, in either form, the
\* propagating mask selects no eigenvalue of infinite or NaN modulus (those
\* with beta = 0) and none that the decaying mask selects, so lmbdainv =
\* ev[propselect] holds finite eigenvalues only.
C14_PropselectFinite ==
  pc = "make_proper_modes" =>
    /\ \A i \in DOMAIN eig.ev :
         eig.propselect[i] =>
           /\ eig.ev[i].abs \notin {Inf, NaN}
           /\ ~eig.select[i]
    /\ LET lam == Masked(eig.ev, eig.propselect)
       IN \A k \in DOMAIN lam : lam[k].abs \notin {Inf, NaN}

C14_Witness ==
  /\ pc = "make_proper_modes" /\ linsys.form = "generalized"
  /\ \E i \in DOMAIN eig.ev : eig.ev[i].abs = NaN /\ ~eig.propselect[i]
  /\ \E i \in DOMAIN eig.ev : eig.ev[i].abs = Inf /\ ~eig.propselect[i]
  /\ \E i \in DOMAIN eig.ev : eig.propselect[i]

\* C15 (as claimed): whenever modes returns, wave_functions, velocities and
\* momenta hold the same number of modes, that number is 2 * nmodes, and the
\* modes are balanced: nmodes of them move in the negative direction and
\* nmodes in the positive one (an unbalanced set never comes back as a result).
C15_TwiceNModes ==
  Returned =>
    LET p == result.prop
        v == p.velocities
        nmodes == result.stab.nmodes
    IN /\ Len(p.wave_functions) = Len(v)
       /\ Len(p.momenta) = Len(v)
       /\ Len(v) = 2 * nmodes
       /\ Cardinality({i \in DOMAIN v : Lt(v[i], 0)}) = nmodes
       /\ Cardinality({i \in DOMAIN v : Gt(v[i], 0)}) = nmodes
====
